---- MODULE Spec2Model ----
(***************************************************************************)
(* Model of the Geometric Mind analysis service: the six-layer             *)
(* GeometricEngine.process pipeline (Aetherwear_core/__init__.py) and the  *)
(* /v1/analyze request boundary (App/main.py).                             *)
(*                                                                         *)
(* Representation.                                                         *)
(*  - A Python str that the code searches (query, insight, keyword) is a   *)
(*    sequence of one-character strings; lower() and the "in" substring    *)
(*    test are computed on the characters.  A query is kept in the state   *)
(*    as the sequence of vocabulary words it is made of; Text(q) is the    *)
(*    str itself (the words joined by single spaces).                      *)
(*  - A str the code only builds or compares as a whole (action texts,     *)
(*    domain labels, pattern names) is a TLA+ string; an f-string is the   *)
(*    sequence of its literal and substituted pieces.                      *)
(*  - Scores are exact integers: pattern strengths in 1/20, connection     *)
(*    strengths in 1/400, the density as the sum of the connection         *)
(*    strengths (in 1/400) with their count, dimension scores and          *)
(*    overall_score in 1/100.  The float comparisons of the code (<, max,  *)
(*    the descending sort) order these values as the integers do.          *)
(*  - list(set(actions)) iterates in hash order; the str hash depends on   *)
(*    the interpreter's hash seed, fixed when the interpreter starts.      *)
(*  - analysis_id, processing_time and timestamp are read off clocks and   *)
(*    uuid4; they are not part of the state modelled here.                 *)
(***************************************************************************)
EXTENDS Integers, Sequences, FiniteSets, TLC

\* ------------------------------------------------------------------ bounds
\* longest query, in vocabulary words
MaxWords == 2
\* hash seeds 0..MaxSeed the interpreter may start with
MaxSeed == 2
\* concurrent requests in flight on the one engine
NumAnalyses == 2
MaxStrength == 2

\* ------------------------------------------------------- program constants
\* query[:50] in _learn_from_analysis
AuditQueryLen == 50
\* [:5] in _generate_actions
MaxActions == 5
\* sorted_patterns[:3] in _find_central_patterns
NumCentral == 3
\* central_patterns[:2] in _generate_blueprint
NumFocus == 2

\* ------------------------------------------------------------ text helpers
Min(a, b) == IF a < b THEN a ELSE b
Max(a, b) == IF a > b THEN a ELSE b

Range(s) == { s[i] : i \in DOMAIN s }

\* the first n items of s: the slice s[:n]
Take(s, n) == SubSeq(s, 1, Min(n, Len(s)))

RECURSIVE SumSeq(_)
SumSeq(s) == IF s = << >> THEN 0 ELSE s[1] + SumSeq(Tail(s))

\* the letters str.lower() changes, with what it changes them to
LowerOf ==
  "A" :> "a" @@ "B" :> "b" @@ "C" :> "c" @@ "D" :> "d" @@ "E" :> "e" @@ "F" :> "f"
  @@ "G" :> "g" @@ "H" :> "h" @@ "I" :> "i" @@ "J" :> "j" @@ "K" :> "k" @@ "L" :> "l"
  @@ "M" :> "m" @@ "N" :> "n" @@ "O" :> "o" @@ "P" :> "p" @@ "Q" :> "q" @@ "R" :> "r"
  @@ "S" :> "s" @@ "T" :> "t" @@ "U" :> "u" @@ "V" :> "v" @@ "W" :> "w" @@ "X" :> "x"
  @@ "Y" :> "y" @@ "Z" :> "z"

\* str.lower() on one character
LowerChar(c) == IF c \in DOMAIN LowerOf THEN LowerOf[c] ELSE c

\* str.lower()
Lower(text) ==
  LET lowered == [ i \in 1..Len(text) |-> LowerChar(text[i]) ]
  IN  SubSeq(lowered, 1, Len(text))

\* keyword in text  (substring test)
Contains(text, keyword) ==
  \E i \in 0..(Len(text) - Len(keyword)) :
     \A j \in 1..Len(keyword) : text[i + j] = keyword[j]

\* sep.join(items), as the sequence of its pieces
RECURSIVE Join(_, _)
Join(sep, items) ==
  IF Len(items) = 0 THEN << >>
  ELSE IF Len(items) = 1 THEN << items[1] >>
  ELSE << items[1], sep >> \o Join(sep, Tail(items))

\* --------------------------------------------------------------- the inputs
\* the words queries are made of: the three queries of test_api.py and three
\* single words (an upper-case keyword, a keyword, a word containing "cut")
Spell ==
  "Should we cut our R&D budget to increase quarterly profits?" :>
      <<"S","h","o","u","l","d"," ","w","e"," ","c","u","t"," ","o","u","r"," ","R","&","D"," ","b",
      "u","d","g","e","t"," ","t","o"," ","i","n","c","r","e","a","s","e"," ","q","u","a","r","t","e",
      "r","l","y"," ","p","r","o","f","i","t","s","?">>
  @@ "Should I quit my job to start a business?" :>
      <<"S","h","o","u","l","d"," ","I"," ","q","u","i","t"," ","m","y"," ","j","o","b"," ","t","o",
      " ","s","t","a","r","t"," ","a"," ","b","u","s","i","n","e","s","s","?">>
  @@ "Should we use cheaper materials to reduce costs?" :>
      <<"S","h","o","u","l","d"," ","w","e"," ","u","s","e"," ","c","h","e","a","p","e","r"," ","m",
      "a","t","e","r","i","a","l","s"," ","t","o"," ","r","e","d","u","c","e"," ","c","o","s","t","s",
      "?">>
  @@ "RISK" :>
      <<"R","I","S","K">>
  @@ "opportunity" :>
      <<"o","p","p","o","r","t","u","n","i","t","y">>
  @@ "execute" :>
      <<"e","x","e","c","u","t","e">>

Vocabulary == DOMAIN Spell

RECURSIVE SeqsUpTo(_, _)
SeqsUpTo(S, n) ==
  IF n = 0 THEN { << >> }
  ELSE LET shorter == SeqsUpTo(S, n - 1)
       IN  shorter \cup { Append(s, x) : s \in { t \in shorter : Len(t) = n - 1 }, x \in S }

Queries == SeqsUpTo(Vocabulary, MaxWords)

\* the str of a query: its words joined by single spaces
RECURSIVE Text(_)
Text(q) ==
  IF q = << >> THEN << >>
  ELSE IF Len(q) = 1 THEN Spell[q[1]]
  ELSE Spell[q[1]] \o << " " >> \o Text(Tail(q))

\* the domain labels of test_api.py, the third template and an unknown label
Domains == { "business", "personal", "ecological", "medical" }

\* request.context: absent (None) or a map; {} is the empty map
NoContext == << "None" >>
EmptyMap == << >>
Contexts == { NoContext, << << "budget", "low" >> >> }

HashSeeds == 0..MaxSeed

\* ------------------------------------------------------------ lookup tables
\* in dict order, as the code iterates them
ThemeOrder == << "profit", "growth", "cost", "risk", "opportunity" >>

theme_keywords ==
  "profit" :> << <<"p","r","o","f","i","t">>,
                 <<"r","e","v","e","n","u","e">>,
                 <<"i","n","c","o","m","e">>,
                 <<"m","o","n","e","y">> >>
  @@ "growth" :> << <<"g","r","o","w">>,
                    <<"e","x","p","a","n","d">>,
                    <<"s","c","a","l","e">>,
                    <<"i","n","c","r","e","a","s","e">> >>
  @@ "cost" :> << <<"c","o","s","t">>,
                  <<"s","a","v","e">>,
                  <<"c","u","t">>,
                  <<"r","e","d","u","c","e">>,
                  <<"e","f","f","i","c","i","e","n","t">> >>
  @@ "risk" :> << <<"r","i","s","k">>,
                  <<"d","a","n","g","e","r">>,
                  <<"p","r","o","b","l","e","m">>,
                  <<"i","s","s","u","e">> >>
  @@ "opportunity" :> << <<"o","p","p","o","r","t","u","n","i","t","y">>,
                         <<"p","o","t","e","n","t","i","a","l">>,
                         <<"p","o","s","s","i","b","i","l","i","t","y">> >>

PatternNames == << "growth_expansion", "stability_structure", "connection_relationship",
                   "innovation_creativity", "efficiency_optimization", "risk_challenge",
                   "opportunity_potential" >>

pattern_indicators ==
  "growth_expansion" :> << <<"g","r","o","w">>,
                           <<"e","x","p","a","n","d">>,
                           <<"i","n","c","r","e","a","s","e">>,
                           <<"s","c","a","l","e">>,
                           <<"m","o","r","e">> >>
  @@ "stability_structure" :> << <<"s","t","a","b","l","e">>,
                                 <<"s","e","c","u","r","e">>,
                                 <<"f","o","u","n","d","a","t","i","o","n">>,
                                 <<"r","e","l","i","a","b","l","e">> >>
  @@ "connection_relationship" :> << <<"c","o","n","n","e","c","t">>,
                                     <<"r","e","l","a","t","i","o","n","s","h","i","p">>,
                                     <<"p","a","r","t","n","e","r">>,
                                     <<"c","o","l","l","a","b","o","r","a","t","e">> >>
  @@ "innovation_creativity" :> << <<"i","n","n","o","v","a","t","e">>,
                                   <<"c","r","e","a","t","e">>,
                                   <<"n","e","w">>,
                                   <<"i","n","v","e","n","t">>,
                                   <<"b","r","e","a","k","t","h","r","o","u","g","h">> >>
  @@ "efficiency_optimization" :> << <<"e","f","f","i","c","i","e","n","t">>,
                                     <<"o","p","t","i","m","i","z","e">>,
                                     <<"s","t","r","e","a","m","l","i","n","e">>,
                                     <<"i","m","p","r","o","v","e">> >>
  @@ "risk_challenge" :> << <<"r","i","s","k">>,
                            <<"p","r","o","b","l","e","m">>,
                            <<"c","h","a","l","l","e","n","g","e">>,
                            <<"t","h","r","e","a","t">>,
                            <<"d","a","n","g","e","r">> >>
  @@ "opportunity_potential" :> << <<"o","p","p","o","r","t","u","n","i","t","y">>,
                                   <<"p","o","t","e","n","t","i","a","l">>,
                                   <<"p","o","s","s","i","b","i","l","i","t","y">>,
                                   <<"f","u","t","u","r","e">> >>

insight_texts ==
  "profit" :>
      <<"F","i","n","a","n","c","i","a","l"," ","o","u","t","c","o","m","e","s"," ","s","h","o","u",
      "l","d"," ","b","a","l","a","n","c","e"," ","s","h","o","r","t","-","t","e","r","m"," ","g","a",
      "i","n","s"," ","w","i","t","h"," ","l","o","n","g","-","t","e","r","m"," ","s","u","s","t","a",
      "i","n","a","b","i","l","i","t","y">>
  @@ "growth" :>
      <<"S","u","s","t","a","i","n","a","b","l","e"," ","g","r","o","w","t","h"," ","r","e","q","u",
      "i","r","e","s"," ","s","o","l","i","d"," ","f","o","u","n","d","a","t","i","o","n","s"," ","a",
      "n","d"," ","c","a","r","e","f","u","l"," ","p","l","a","n","n","i","n","g">>
  @@ "cost" :>
      <<"C","o","s","t"," ","o","p","t","i","m","i","z","a","t","i","o","n"," ","s","h","o","u","l",
      "d"," ","n","o","t"," ","c","o","m","p","r","o","m","i","s","e"," ","q","u","a","l","i","t","y",
      " ","o","r"," ","f","u","t","u","r","e"," ","c","a","p","a","b","i","l","i","t","i","e","s">>
  @@ "risk" :>
      <<"R","i","s","k"," ","m","a","n","a","g","e","m","e","n","t"," ","i","s"," ","e","s","s","e",
      "n","t","i","a","l"," ","b","u","t"," ","s","h","o","u","l","d"," ","n","o","t"," ","s","t","i",
      "f","l","e"," ","i","n","n","o","v","a","t","i","o","n">>
  @@ "opportunity" :>
      <<"N","e","w"," ","o","p","p","o","r","t","u","n","i","t","i","e","s"," ","s","h","o","u","l",
      "d"," ","a","l","i","g","n"," ","w","i","t","h"," ","c","o","r","e"," ","s","t","r","e","n","g",
      "t","h","s"," ","a","n","d"," ","v","a","l","u","e","s">>

default_insight ==
  <<"C","o","n","s","i","d","e","r"," ","m","u","l","t","i","p","l","e"," ","p","e","r","s","p",
  "e","c","t","i","v","e","s"," ","a","n","d"," ","l","o","n","g","-","t","e","r","m"," ","i","m",
  "p","a","c","t","s">>


\* --------------------------------------------------------- Layer 0 helpers
\* _extract_themes: the themes with a keyword in the lower-cased query, in
\* dict order; ["general"] when there is none
RECURSIVE matched_themes(_, _)
matched_themes(query_lower, order) ==
  IF order = << >> THEN << >>
  ELSE (IF \E k \in DOMAIN theme_keywords[order[1]] :
              Contains(query_lower, theme_keywords[order[1]][k])
        THEN << order[1] >> ELSE << >>)
       \o matched_themes(query_lower, Tail(order))

\* mutant of extract_themes: the keywords are searched in the query as
\* written, not in the lower-cased query
extract_themes_case_sensitive(query) ==
  LET themes == matched_themes(query, ThemeOrder)
  IN  IF themes # << >> THEN themes ELSE << "general" >>

extract_themes(query) ==
  LET query_lower == Lower(query)
      themes == matched_themes(query_lower, ThemeOrder)
  IN  IF themes # << >> THEN themes ELSE << "general" >>

\* _generate_insight: insights.get(theme, default); context is not read
generate_insight(theme, context) ==
  IF theme \in DOMAIN insight_texts THEN insight_texts[theme] ELSE default_insight

\* _vesica_piscis_layer: one insight per theme, empty insights dropped
RECURSIVE insights_of(_, _)
insights_of(themes, context) ==
  IF themes = << >> THEN << >>
  ELSE LET insight == generate_insight(themes[1], context)
       IN  (IF insight # << >> THEN << insight >> ELSE << >>)
           \o insights_of(Tail(themes), context)

vesica_piscis_layer(query, context) == insights_of(extract_themes(query), context)

\* --------------------------------------------------------- Layer 1 helpers
\* _calculate_pattern_strength, in 1/20:
\* min(matches / max(len(indicators), 1), 1.0)
calculate_pattern_strength(insight, pattern) ==
  LET indicators == IF pattern \in DOMAIN pattern_indicators
                    THEN pattern_indicators[pattern] ELSE << >>
      lowered == Lower(insight)
      matches == Cardinality({ k \in DOMAIN indicators : Contains(lowered, indicators[k]) })
  IN  Min((matches * 20) \div Max(Len(indicators), 1), 20)

\* _calculate_pattern_strength of the texts _generate_insight can return,
\* computed once
known_strengths ==
  [ insight \in Range(insight_texts) \cup { default_insight } |->
      [ pattern \in Range(PatternNames) |-> calculate_pattern_strength(insight, pattern) ] ]

pattern_strength(insight, pattern) ==
  IF insight \in DOMAIN known_strengths /\ pattern \in Range(PatternNames)
  THEN known_strengths[insight][pattern]
  ELSE calculate_pattern_strength(insight, pattern)

\* _seed_of_life_layer: every pattern starts at 0.0 and keeps the maximum
\* strength over the insights
RECURSIVE fold_insights(_, _)
fold_insights(patterns, insight_list) ==
  IF insight_list = << >> THEN patterns
  ELSE fold_insights(
         [ p \in DOMAIN patterns |->
             Max(patterns[p], pattern_strength(insight_list[1], p)) ],
         Tail(insight_list))

seed_of_life_layer(insight_list) ==
  fold_insights([ p \in Range(PatternNames) |-> 0 ], insight_list)

\* --------------------------------------------------------- Layer 2 helpers
complementary_pairs == { << "growth_expansion", "stability_structure" >>,
                         << "innovation_creativity", "efficiency_optimization" >>,
                         << "risk_challenge", "opportunity_potential" >> }

\* _calculate_connection_strength, in 1/400:
\* base_strength (0.8 or 0.3) * (strength_a + strength_b) / 2
calculate_connection_strength(pattern_a, pattern_b, patterns) ==
  LET base_strength == IF \/ << pattern_a, pattern_b >> \in complementary_pairs
                          \/ << pattern_b, pattern_a >> \in complementary_pairs
                       THEN 8 ELSE 3
      strength_a == IF pattern_a \in DOMAIN patterns THEN patterns[pattern_a] ELSE 0
      strength_b == IF pattern_b \in DOMAIN patterns THEN patterns[pattern_b] ELSE 0
  IN  base_strength * (strength_a + strength_b)

\* sorted(..., key=score, reverse=True): a stable descending sort, an item
\* goes behind every item whose score is not lower
RECURSIVE insert_desc(_, _, _)
insert_desc(sorted, item, patterns) ==
  IF sorted = << >> THEN << item >>
  ELSE IF patterns[sorted[1]] >= patterns[item]
       THEN << sorted[1] >> \o insert_desc(Tail(sorted), item, patterns)
       ELSE << item >> \o sorted

RECURSIVE sorted_desc(_, _)
sorted_desc(names, patterns) ==
  IF names = << >> THEN << >>
  ELSE insert_desc(sorted_desc(SubSeq(names, 1, Len(names) - 1), patterns),
                   names[Len(names)], patterns)

\* mutant of find_central_patterns: patterns of equal strength come out in
\* the reverse of the dict order
find_central_patterns_ties_reversed(patterns, connections) ==
  LET reversed == [ i \in 1..Len(PatternNames) |-> PatternNames[Len(PatternNames) + 1 - i] ]
  IN  Take(sorted_desc(SubSeq(reversed, 1, Len(PatternNames)), patterns), NumCentral)

\* _find_central_patterns: the 3 first of the patterns sorted by strength
find_central_patterns(patterns, connections) ==
  Take(sorted_desc(PatternNames, patterns), NumCentral)

\* _calculate_network_density: the mean of the connection strengths, 0.0
\* without connections; kept as the sum (in 1/400) and the count
calculate_network_density(connections) ==
  IF DOMAIN connections = {} THEN [ sum |-> 0, count |-> 1 ]
  ELSE LET keys == DOMAIN connections
           RECURSIVE total(_)
           total(K) == IF K = {} THEN 0
                       ELSE LET k == CHOOSE x \in K : TRUE
                            IN  connections[k] + total(K \ { k })
       IN  [ sum |-> total(keys), count |-> Cardinality(keys) ]

\* _flower_of_life_layer
flower_of_life_layer(patterns) ==
  LET pairs == { pr \in Range(PatternNames) \X Range(PatternNames) : pr[1] # pr[2] }
      connections == [ pr \in pairs |->
                         calculate_connection_strength(pr[1], pr[2], patterns) ]
  IN  [ nodes |-> patterns,
        connections |-> connections,
        central_patterns |-> find_central_patterns(patterns, connections),
        network_density |-> calculate_network_density(connections) ]

\* --------------------------------------------------------- Layer 3 helpers
strategy_types == << "aggressive", "balanced", "conservative", "innovative", "efficient" >>

approaches ==
  "aggressive" :> "Rapid implementation with high potential returns"
  @@ "balanced" :> "Measured approach considering multiple factors"
  @@ "conservative" :> "Cautious implementation minimizing risks"
  @@ "innovative" :> "Creative solutions exploring new possibilities"
  @@ "efficient" :> "Optimized approach maximizing resource usage"

\* _get_strategy_approach
get_strategy_approach(strategy) ==
  IF strategy \in DOMAIN approaches THEN approaches[strategy] ELSE "Balanced approach"

base_actions ==
  "aggressive" :> << "Implement quickly", "Allocate maximum resources", "Set ambitious targets" >>
  @@ "balanced" :> << "Plan carefully", "Balance resources", "Set realistic targets" >>
  @@ "conservative" :> << "Test thoroughly", "Allocate minimal resources", "Set cautious targets" >>
  @@ "innovative" :> << "Explore new methods", "Encourage creativity", "Accept calculated risks" >>
  @@ "efficient" :> << "Optimize processes", "Measure everything", "Eliminate waste" >>

pattern_actions ==
  "growth_expansion" :> << "Focus on market expansion", "Increase capacity" >>
  @@ "stability_structure" :> << "Strengthen foundations", "Build resilience" >>
  @@ "innovation_creativity" :> << "Invest in R&D", "Encourage innovation" >>

\* every action text of the two tables, in source order
ActionTexts ==
  base_actions["aggressive"] \o base_actions["balanced"] \o base_actions["conservative"]
  \o base_actions["innovative"] \o base_actions["efficient"]
  \o pattern_actions["growth_expansion"] \o pattern_actions["stability_structure"]
  \o pattern_actions["innovation_creativity"]

ActionIndex ==
  [ text \in Range(ActionTexts) |-> CHOOSE i \in DOMAIN ActionTexts : ActionTexts[i] = text ]

\* the slots of the hash table of a set
Slots == 0..22

\* the slot a str hashes to under a hash seed: an injection of the action
\* texts into the slots, a different one for each seed
StrHash(text, seed) == (ActionIndex[text] * (seed + 1) + seed) % 23

\* iterating a set: the items in the order of their slots
RECURSIVE hash_ordered(_, _, _)
hash_ordered(S, seed, slot) ==
  IF slot \notin Slots THEN << >>
  ELSE LET here == { x \in S : StrHash(x, seed) = slot }
       IN  (IF here = {} THEN << >> ELSE << CHOOSE x \in here : TRUE >>)
           \o hash_ordered(S, seed, slot + 1)

\* list(set(items)): each distinct item once, in hash order
list_of_set(items, seed) == hash_ordered(Range(items), seed, 0)

\* the extend loop of _generate_actions
RECURSIVE extended(_, _)
extended(actions, patterns) ==
  IF patterns = << >> THEN actions
  ELSE extended(IF patterns[1] \in DOMAIN pattern_actions
                THEN actions \o pattern_actions[patterns[1]] ELSE actions,
                Tail(patterns))

\* _generate_actions: list(set(actions))[:5]
generate_actions(strategy, patterns, seed) ==
  LET actions == extended(IF strategy \in DOMAIN base_actions
                          THEN base_actions[strategy] ELSE << >>, patterns)
  IN  Take(list_of_set(actions, seed), MaxActions)

\* mutant of generate_blueprint: the outcome text names the first key action
generate_blueprint_outcome_from_actions(strategy, network, query, seed) ==
  LET central_patterns == network.central_patterns
      key_actions == generate_actions(strategy, central_patterns, seed)
  IN  [ strategy |-> strategy,
        focus_patterns |-> Take(central_patterns, NumFocus),
        approach |-> get_strategy_approach(strategy),
        key_actions |-> key_actions,
        expected_outcome |-> << "Balanced approach focusing on " >> \o Take(key_actions, 1),
        risk_level |-> IF strategy = "balanced" THEN "medium"
                       ELSE IF strategy = "aggressive" THEN "high" ELSE "low" ]

\* mutant of generate_blueprint: the actions are generated from the focus
\* patterns instead of the central patterns
generate_blueprint_focus_actions(strategy, network, query, seed) ==
  LET central_patterns == network.central_patterns
  IN  [ strategy |-> strategy,
        focus_patterns |-> Take(central_patterns, NumFocus),
        approach |-> get_strategy_approach(strategy),
        key_actions |-> generate_actions(strategy, Take(central_patterns, NumFocus), seed),
        expected_outcome |-> << "Balanced approach focusing on " >>
                             \o Join(", ", Take(central_patterns, NumFocus)),
        risk_level |-> IF strategy = "balanced" THEN "medium"
                       ELSE IF strategy = "aggressive" THEN "high" ELSE "low" ]

\* _generate_blueprint
generate_blueprint(strategy, network, query, seed) ==
  LET central_patterns == network.central_patterns
  IN  [ strategy |-> strategy,
        focus_patterns |-> Take(central_patterns, NumFocus),
        approach |-> get_strategy_approach(strategy),
        key_actions |-> generate_actions(strategy, central_patterns, seed),
        expected_outcome |-> << "Balanced approach focusing on " >>
                             \o Join(", ", Take(central_patterns, NumFocus)),
        risk_level |-> IF strategy = "balanced" THEN "medium"
                       ELSE IF strategy = "aggressive" THEN "high" ELSE "low" ]

\* _fruit_of_life_layer: one blueprint per strategy, in order
fruit_of_life_layer(network, query, seed) ==
  [ i \in DOMAIN strategy_types |-> generate_blueprint(strategy_types[i], network, query, seed) ]

\* --------------------------------------------------------- Layer 4 helpers
\* the keys of scores, in dict order
Dimensions == << "action_focus", "stability_foundation", "clarity_logic",
                 "adaptability_empathy", "purpose_potential" >>

\* mutant of evaluate_action_focus: every strategy gets the score of the
\* else branch
evaluate_action_focus_flat(solution) == 50

\* _evaluate_action_focus, in 1/100
evaluate_action_focus(solution) ==
  IF solution.strategy = "aggressive" THEN 90
  ELSE IF solution.strategy = "balanced" THEN 70 ELSE 50

\* _evaluate_stability
evaluate_stability(solution) ==
  IF solution.risk_level = "low" THEN 90
  ELSE IF solution.risk_level = "medium" THEN 70 ELSE 40

\* _evaluate_clarity: min(len(actions) * 0.2, 1.0)
evaluate_clarity(solution) == Min(Len(solution.key_actions) * 20, 100)

\* _evaluate_adaptability
evaluate_adaptability(solution) ==
  IF solution.strategy \in { "balanced", "innovative" } THEN 80 ELSE 50

\* _evaluate_purpose
evaluate_purpose(solution) ==
  IF \/ "opportunity_potential" \in Range(solution.focus_patterns)
     \/ "innovation_creativity" \in Range(solution.focus_patterns)
  THEN 90 ELSE 60

risk_messages ==
  "action_focus" :> "Lacks clear action plan"
  @@ "stability_foundation" :> "High instability risk"
  @@ "clarity_logic" :> "Unclear implementation path"
  @@ "adaptability_empathy" :> "Inflexible to changes"
  @@ "purpose_potential" :> "Limited long-term potential"

recommendation_messages ==
  "action_focus" :> "Define clearer action steps"
  @@ "stability_foundation" :> "Strengthen foundational elements"
  @@ "clarity_logic" :> "Improve plan clarity and logic"
  @@ "adaptability_empathy" :> "Increase flexibility and consideration of impacts"
  @@ "purpose_potential" :> "Enhance long-term strategic alignment"

\* the messages of the dimensions scoring below threshold, in dimension order
RECURSIVE messages_below(_, _, _, _)
messages_below(scores, threshold, messages, dims) ==
  IF dims = << >> THEN << >>
  ELSE (IF scores[dims[1]] < threshold THEN << messages[dims[1]] >> ELSE << >>)
       \o messages_below(scores, threshold, messages, Tail(dims))

\* _identify_risks: below 0.3
identify_risks(scores) ==
  LET risks == messages_below(scores, 30, risk_messages, Dimensions)
  IN  IF risks # << >> THEN risks ELSE << "Low to moderate risks identified" >>

\* _generate_recommendations: below 0.7
generate_recommendations(scores) ==
  LET recommendations == messages_below(scores, 70, recommendation_messages, Dimensions)
  IN  IF recommendations # << >> THEN recommendations ELSE << "Well-balanced approach" >>

\* the body of the loop of _metatrons_cube_layer
evaluate_solution(solution) ==
  LET scores == "action_focus" :> evaluate_action_focus(solution)
                @@ "stability_foundation" :> evaluate_stability(solution)
                @@ "clarity_logic" :> evaluate_clarity(solution)
                @@ "adaptability_empathy" :> evaluate_adaptability(solution)
                @@ "purpose_potential" :> evaluate_purpose(solution)
      overall_score == SumSeq([ i \in DOMAIN Dimensions |-> scores[Dimensions[i]] ])
                       \div Len(Dimensions)
  IN  [ solution |-> solution,
        scores |-> scores,
        overall_score |-> overall_score,
        risks |-> identify_risks(scores),
        recommendations |-> generate_recommendations(scores) ]

\* max(evaluated_solutions, key=overall_score): the first item no later item
\* beats; a later item replaces the running maximum only when strictly greater
RECURSIVE max_from(_, _)
max_from(best, rest) ==
  IF rest = << >> THEN best
  ELSE max_from(IF rest[1].overall_score > best.overall_score THEN rest[1] ELSE best,
                Tail(rest))

\* mutant of max_by_overall_score: a later item replaces the running maximum
\* when it is not lower, so the last of the best items wins
RECURSIVE max_from_last(_, _)
max_from_last(best, rest) ==
  IF rest = << >> THEN best
  ELSE max_from_last(IF rest[1].overall_score >= best.overall_score THEN rest[1] ELSE best,
                     Tail(rest))

max_by_overall_score_last(evaluated_solutions) ==
  max_from_last(evaluated_solutions[1], Tail(evaluated_solutions))

max_by_overall_score(evaluated_solutions) ==
  max_from(evaluated_solutions[1], Tail(evaluated_solutions))

\* _metatrons_cube_layer
evaluated_solutions_of(solutions) ==
  [ i \in DOMAIN solutions |-> evaluate_solution(solutions[i]) ]

\* mutant of metatrons_cube_layer: the overall score handed on is the one of
\* the first evaluated solution, not the one of the selected solution
metatrons_cube_layer_first_score(solutions) ==
  LET evaluated == evaluated_solutions_of(solutions)
      best == max_by_overall_score(evaluated)
  IN  [ best EXCEPT !.overall_score = evaluated[1].overall_score ]

metatrons_cube_layer(solutions) == max_by_overall_score(evaluated_solutions_of(solutions))

\* --------------------------------------------------------- Layer 5 helpers
\* mutant of apply_domain_knowledge: a domain without a template gets the
\* personal template
apply_domain_knowledge_wrong_default(domain, decision) ==
  LET domain_insights ==
        "business" :> [ final_decision |->
                          << "Business strategy: " >> \o decision.solution.expected_outcome ]
        @@ "personal" :> [ final_decision |->
              << "Personal decision: Consider life balance and long-term happiness" >> ]
        @@ "ecological" :> [ final_decision |->
              << "Ecological approach: Prioritize sustainability and system health" >> ]
      domain_info == IF domain \in DOMAIN domain_insights
                     THEN domain_insights[domain] ELSE domain_insights["personal"]
  IN  [ final_decision |-> domain_info.final_decision,
        confidence |-> decision.overall_score,
        risks |-> decision.risks,
        recommendations |-> decision.recommendations,
        geometric_balance |-> decision.scores ]

\* _apply_domain_knowledge
apply_domain_knowledge(domain, decision) ==
  LET domain_insights ==
        "business" :> [ final_decision |->
                          << "Business strategy: " >> \o decision.solution.expected_outcome ]
        @@ "personal" :> [ final_decision |->
              << "Personal decision: Consider life balance and long-term happiness" >> ]
        @@ "ecological" :> [ final_decision |->
              << "Ecological approach: Prioritize sustainability and system health" >> ]
      domain_info == IF domain \in DOMAIN domain_insights
                     THEN domain_insights[domain] ELSE domain_insights["business"]
  IN  [ final_decision |-> domain_info.final_decision,
        confidence |-> decision.overall_score,
        risks |-> decision.risks,
        recommendations |-> decision.recommendations,
        geometric_balance |-> decision.scores ]

\* the message _learn_from_analysis hands to the logger:
\* f"Learned from {domain} analysis: {query[:50]}..."
learn_message(query, domain) ==
  [ domain |-> domain, query |-> Take(query, AuditQueryLen) ]

\* the dict _conscious_field_layer returns
conscious_field_result(decision, domain) ==
  LET domain_wisdom == apply_domain_knowledge(domain, decision)
  IN  [ final_decision |-> domain_wisdom.final_decision,
        confidence |-> decision.overall_score,
        risks |-> decision.risks,
        recommendations |-> decision.recommendations,
        geometric_balance |-> decision.scores ]

\* ------------------------------------------------------------------- state
Analyses == 1..NumAnalyses

\* None, and a value that is present
None == << >>
Some(v) == << v >>

VARIABLES
  hashSeed,    \* the hash seed of the interpreter the engine runs in
  auditLog,    \* the messages the logger of the engine has taken
  pc,          \* per request: the step analyze_decision / process is at
  queryOf,      \* per request: request.query
  domainOf,     \* per request: request.domain
  contextOf,    \* per request: the context handed to process
  insightsOf,   \* per request: the local insights of process
  patternsOf,   \* per request: the local patterns of process
  networkOf,    \* per request: the local network of process
  solutionsOf,  \* per request: the local solutions of process
  decisionOf,   \* per request: the local decision of process
  wisdomOf,     \* per request: the local wisdom of process
  sinkOf,       \* per request: how the logger call of the request ended
  raisedOf,     \* per request: the exception in flight
  responseOf    \* per request: what analyze_decision answered

vars == << hashSeed, auditLog, pc, queryOf, domainOf, contextOf, insightsOf, patternsOf, networkOf,
           solutionsOf, decisionOf, wisdomOf, sinkOf, raisedOf, responseOf >>

locals == << insightsOf, patternsOf, networkOf, solutionsOf, decisionOf, wisdomOf >>

\* engine = GeometricEngine(); no request yet
Init ==
  /\ hashSeed \in HashSeeds
  /\ auditLog = << >>
  /\ pc = [ p \in Analyses |-> "idle" ]
  /\ queryOf = [ p \in Analyses |-> << >> ]
  /\ domainOf = [ p \in Analyses |-> "" ]
  /\ contextOf = [ p \in Analyses |-> None ]
  /\ insightsOf = [ p \in Analyses |-> None ]
  /\ patternsOf = [ p \in Analyses |-> None ]
  /\ networkOf = [ p \in Analyses |-> None ]
  /\ solutionsOf = [ p \in Analyses |-> None ]
  /\ decisionOf = [ p \in Analyses |-> None ]
  /\ wisdomOf = [ p \in Analyses |-> None ]
  /\ sinkOf = [ p \in Analyses |-> "none" ]
  /\ raisedOf = [ p \in Analyses |-> None ]
  /\ responseOf = [ p \in Analyses |-> None ]

\* analyze_decision up to the call of engine.process:
\* context = request.context or {}
Receive(p, q, d, c) ==
  /\ pc[p] = "idle"
  /\ queryOf' = [ queryOf EXCEPT ![p] = q ]
  /\ domainOf' = [ domainOf EXCEPT ![p] = d ]
  /\ contextOf' = [ contextOf EXCEPT ![p] = IF c = NoContext \/ c = EmptyMap THEN EmptyMap ELSE c ]
  /\ pc' = [ pc EXCEPT ![p] = "vesica_piscis" ]
  /\ UNCHANGED << hashSeed, auditLog, locals, sinkOf, raisedOf, responseOf >>

\* LAYER 0: insights = await self._vesica_piscis_layer(query, context)
VesicaPiscis(p) ==
  /\ pc[p] = "vesica_piscis"
  /\ insightsOf' = [ insightsOf EXCEPT ![p] = vesica_piscis_layer(Text(queryOf[p]), contextOf[p]) ]
  /\ pc' = [ pc EXCEPT ![p] = "seed_of_life" ]
  /\ UNCHANGED << hashSeed, auditLog, queryOf, domainOf, contextOf, patternsOf, networkOf, solutionsOf,
                  decisionOf, wisdomOf, sinkOf, raisedOf, responseOf >>

\* LAYER 1: patterns = await self._seed_of_life_layer(insights)
SeedOfLife(p) ==
  /\ pc[p] = "seed_of_life"
  /\ patternsOf' = [ patternsOf EXCEPT ![p] = Some(seed_of_life_layer(insightsOf[p])) ]
  /\ pc' = [ pc EXCEPT ![p] = "flower_of_life" ]
  /\ UNCHANGED << hashSeed, auditLog, queryOf, domainOf, contextOf, insightsOf, networkOf, solutionsOf,
                  decisionOf, wisdomOf, sinkOf, raisedOf, responseOf >>

\* LAYER 2: network = await self._flower_of_life_layer(patterns)
FlowerOfLife(p) ==
  /\ pc[p] = "flower_of_life"
  /\ networkOf' = [ networkOf EXCEPT ![p] = Some(flower_of_life_layer(patternsOf[p][1])) ]
  /\ pc' = [ pc EXCEPT ![p] = "fruit_of_life" ]
  /\ UNCHANGED << hashSeed, auditLog, queryOf, domainOf, contextOf, insightsOf, patternsOf, solutionsOf,
                  decisionOf, wisdomOf, sinkOf, raisedOf, responseOf >>

\* LAYER 3: solutions = await self._fruit_of_life_layer(network, query)
FruitOfLife(p) ==
  /\ pc[p] = "fruit_of_life"
  /\ solutionsOf' = [ solutionsOf EXCEPT ![p] =
                      fruit_of_life_layer(networkOf[p][1], Text(queryOf[p]), hashSeed) ]
  /\ pc' = [ pc EXCEPT ![p] = "metatrons_cube" ]
  /\ UNCHANGED << hashSeed, auditLog, queryOf, domainOf, contextOf, insightsOf, patternsOf, networkOf,
                  decisionOf, wisdomOf, sinkOf, raisedOf, responseOf >>

\* mutant of MetatronsCube: the solutions are kept on the shared engine, the
\* layer evaluates the ones the latest request stored there
MetatronsCubeSharedSolutions(p) ==
  /\ pc[p] = "metatrons_cube"
  /\ LET stored == { r \in Analyses : solutionsOf[r] # None }
         latest == CHOOSE r \in stored : \A s \in stored : r >= s
     IN  decisionOf' = [ decisionOf EXCEPT ![p] = Some(metatrons_cube_layer(solutionsOf[latest])) ]
  /\ pc' = [ pc EXCEPT ![p] = "conscious_field" ]
  /\ UNCHANGED << hashSeed, auditLog, queryOf, domainOf, contextOf, insightsOf, patternsOf,
                  networkOf, solutionsOf, wisdomOf, sinkOf, raisedOf, responseOf >>

\* LAYER 4: decision = await self._metatrons_cube_layer(solutions)
MetatronsCube(p) ==
  /\ pc[p] = "metatrons_cube"
  /\ decisionOf' = [ decisionOf EXCEPT ![p] = Some(metatrons_cube_layer(solutionsOf[p])) ]
  /\ pc' = [ pc EXCEPT ![p] = "conscious_field" ]
  /\ UNCHANGED << hashSeed, auditLog, queryOf, domainOf, contextOf, insightsOf, patternsOf, networkOf,
                  solutionsOf, wisdomOf, sinkOf, raisedOf, responseOf >>

\* LAYER 5: wisdom = await self._conscious_field_layer(decision, query, domain),
\* the logger takes the message of _learn_from_analysis
ConsciousField(p) ==
  /\ pc[p] = "conscious_field"
  /\ auditLog' = Append(auditLog, learn_message(Text(queryOf[p]), domainOf[p]))
  /\ sinkOf' = [ sinkOf EXCEPT ![p] = "written" ]
  /\ wisdomOf' = [ wisdomOf EXCEPT ![p] = Some(conscious_field_result(decisionOf[p][1], domainOf[p])) ]
  /\ pc' = [ pc EXCEPT ![p] = "build_result" ]
  /\ UNCHANGED << hashSeed, queryOf, domainOf, contextOf, insightsOf, patternsOf, networkOf, solutionsOf,
                  decisionOf, raisedOf, responseOf >>

\* LAYER 5 when the handler behind the logger fails to write and reports the
\* failure itself (logging.Handler.handleError): the call returns normally
ConsciousFieldWriteLost(p) ==
  /\ pc[p] = "conscious_field"
  /\ sinkOf' = [ sinkOf EXCEPT ![p] = "lost" ]
  /\ wisdomOf' = [ wisdomOf EXCEPT ![p] = Some(conscious_field_result(decisionOf[p][1], domainOf[p])) ]
  /\ pc' = [ pc EXCEPT ![p] = "build_result" ]
  /\ UNCHANGED << hashSeed, auditLog, queryOf, domainOf, contextOf, insightsOf, patternsOf, networkOf,
                  solutionsOf, decisionOf, raisedOf, responseOf >>

\* what a failing write raises: str(e) of the OSError
SinkErrors == { "[Errno 28] No space left on device: '/var/log/audit.log'" }

\* LAYER 5 when the failure of the write leaves self.logger.info as an
\* exception: nothing catches it in _learn_from_analysis, in
\* _conscious_field_layer or in process, it reaches analyze_decision
ConsciousFieldWriteRaises(p) ==
  /\ pc[p] = "conscious_field"
  /\ \E e \in SinkErrors : raisedOf' = [ raisedOf EXCEPT ![p] = Some(e) ]
  /\ sinkOf' = [ sinkOf EXCEPT ![p] = "raised" ]
  /\ pc' = [ pc EXCEPT ![p] = "except" ]
  /\ UNCHANGED << hashSeed, auditLog, queryOf, domainOf, contextOf, locals, responseOf >>

\* str(e) of the AttributeError of wisdom.final_decision
AttributeErrorText == "'dict' object has no attribute 'final_decision'"

\* the return statement of process: wisdom is the dict of
\* _conscious_field_layer, wisdom.final_decision is an attribute access on it
\* and raises AttributeError before a GeometricResult is built
BuildResult(p) ==
  /\ pc[p] = "build_result"
  /\ raisedOf' = [ raisedOf EXCEPT ![p] = Some(AttributeErrorText) ]
  /\ pc' = [ pc EXCEPT ![p] = "except" ]
  /\ UNCHANGED << hashSeed, auditLog, queryOf, domainOf, contextOf, locals, sinkOf, responseOf >>

\* except Exception as e:
\*     raise HTTPException(status_code=500, detail=f"Analysis failed: {str(e)}")
ExceptHandler(p) ==
  /\ pc[p] = "except"
  /\ responseOf' = [ responseOf EXCEPT ![p] =
                     Some([ status_code |-> 500,
                            detail |-> << "Analysis failed: ", raisedOf[p][1] >> ]) ]
  /\ pc' = [ pc EXCEPT ![p] = "done" ]
  /\ UNCHANGED << hashSeed, auditLog, queryOf, domainOf, contextOf, locals, sinkOf, raisedOf >>

\* one request, any query, domain and context, an audit sink that may fail
Next ==
  \/ \E q \in Queries, d \in Domains, c \in Contexts : Receive(1, q, d, c)
  \/ VesicaPiscis(1)
  \/ SeedOfLife(1)
  \/ FlowerOfLife(1)
  \/ FruitOfLife(1)
  \/ MetatronsCube(1)
  \/ ConsciousField(1)
  \/ ConsciousFieldWriteLost(1)
  \/ ConsciousFieldWriteRaises(1)
  \/ BuildResult(1)
  \/ ExceptHandler(1)

Spec == Init /\ [][Next]_vars

\* the requests of test_api.py (no context), in flight together on the one
\* engine, every interleaving of their steps, an audit sink that works
TestCases ==
  { [ query |-> << "Should we cut our R&D budget to increase quarterly profits?" >>,
      domain |-> "business" ],
    [ query |-> << "Should I quit my job to start a business?" >>,
      domain |-> "personal" ],
    [ query |-> << "Should we use cheaper materials to reduce costs?" >>,
      domain |-> "business" ] }

NextConc ==
  \E p \in Analyses :
    \/ \E t \in TestCases : Receive(p, t.query, t.domain, NoContext)
    \/ VesicaPiscis(p)
    \/ SeedOfLife(p)
    \/ FlowerOfLife(p)
    \/ FruitOfLife(p)
    \/ MetatronsCube(p)
    \/ ConsciousField(p)
    \/ BuildResult(p)
    \/ ExceptHandler(p)

SpecConc == Init /\ [][NextConc]_vars

\* _flower_of_life_layer and _fruit_of_life_layer applied to any pattern score
\* map over the 7 patterns (strengths in 1/20, 0..MaxStrength): the request
\* stands at the entry of layer 2 with that map as its patterns
PatternMaps == [ Range(PatternNames) -> 0..MaxStrength ]

InitCentral ==
  /\ hashSeed \in HashSeeds
  /\ auditLog = << >>
  /\ pc = [ p \in Analyses |-> IF p = 1 THEN "flower_of_life" ELSE "idle" ]
  /\ queryOf = [ p \in Analyses |-> << >> ]
  /\ domainOf = [ p \in Analyses |-> IF p = 1 THEN "business" ELSE "" ]
  /\ contextOf = [ p \in Analyses |-> IF p = 1 THEN EmptyMap ELSE None ]
  /\ insightsOf = [ p \in Analyses |-> None ]
  /\ \E patterns \in PatternMaps :
       patternsOf = [ p \in Analyses |-> IF p = 1 THEN Some(patterns) ELSE None ]
  /\ networkOf = [ p \in Analyses |-> None ]
  /\ solutionsOf = [ p \in Analyses |-> None ]
  /\ decisionOf = [ p \in Analyses |-> None ]
  /\ wisdomOf = [ p \in Analyses |-> None ]
  /\ sinkOf = [ p \in Analyses |-> "none" ]
  /\ raisedOf = [ p \in Analyses |-> None ]
  /\ responseOf = [ p \in Analyses |-> None ]

NextCentral ==
  \/ FlowerOfLife(1)
  \/ FruitOfLife(1)

SpecCentral == InitCentral /\ [][NextCentral]_vars

\* ------------------------------------------------------------------ claims
\* The FinalDecision of a request is the dict _conscious_field_layer returns
\* (final_decision, confidence, risks, recommendations, geometric_balance);
\* it is produced when wisdom is assigned.
FinalDecisionProduced(p) == wisdomOf[p] # None
FinalDecision(p) == wisdomOf[p][1]

RECURSIVE SumOver(_, _)
SumOver(f, K) ==
  IF K = {} THEN 0
  ELSE LET k == CHOOSE x \in K : TRUE IN f[k] + SumOver(f, K \ { k })

\* a geometric_balance with exactly the five keys, each value in [0,1]
BalanceWellFormed(balance) ==
  /\ DOMAIN balance = Range(Dimensions)
  /\ \A k \in DOMAIN balance : 0 <= balance[k] /\ balance[k] <= 100

\* C1: for every query and every domain, process returns a result whose
\* geometric_balance has exactly the five keys action_focus,
\* stability_foundation, clarity_logic, adaptability_empathy and
\* purpose_potential, each value in [0,1], and whose confidence is in [0,1]:
\* once the six layers of a request have run, process has not raised and the
\* balance and confidence it hands back are well formed.
C1_ProcessReturnsBalancedResult ==
  \A p \in Analyses :
    FinalDecisionProduced(p) /\ pc[p] # "build_result" =>
      /\ raisedOf[p] = None
      /\ BalanceWellFormed(FinalDecision(p).geometric_balance)
      /\ 0 <= FinalDecision(p).confidence /\ FinalDecision(p).confidence <= 100

\* C2: the confidence of the FinalDecision equals the arithmetic mean of the
\* five values of its geometric_balance (both come from the one selected
\* evaluated solution).
C2_ConfidenceIsMeanOfBalance ==
  \A p \in Analyses :
    FinalDecisionProduced(p) =>
      LET balance == FinalDecision(p).geometric_balance
      IN  /\ Cardinality(DOMAIN balance) = 5
          /\ FinalDecision(p).confidence * 5 = SumOver(balance, DOMAIN balance)

\* C2 witness: a FinalDecision is produced whose selected solution is not the
\* first one evaluated and whose balance values differ from each other
C2_Witness ==
  \E p \in Analyses :
    /\ FinalDecisionProduced(p)
    /\ decisionOf[p][1].solution.strategy # strategy_types[1]
    /\ FinalDecision(p).geometric_balance["action_focus"]
         # FinalDecision(p).geometric_balance["purpose_potential"]
    /\ FinalDecision(p).confidence = 82

\* the FinalDecision the six layers compute for a request on their own,
\* under a given hash seed
FinalDecisionAlone(q, d, c, seed) ==
  LET insight_list == vesica_piscis_layer(Text(q), c)
      pattern_map == seed_of_life_layer(insight_list)
      net == flower_of_life_layer(pattern_map)
      blueprints == fruit_of_life_layer(net, Text(q), seed)
      best == metatrons_cube_layer(blueprints)
  IN  conscious_field_result(best, d)

\* FinalDecisionAlone of the requests of test_api.py, computed once
TestCaseAlone ==
  [ t \in TestCases, seed \in HashSeeds |->
      FinalDecisionAlone(t.query, t.domain, EmptyMap, seed) ]

\* the FinalDecision request p produces when run alone under a hash seed
ExpectedAlone(p, seed) ==
  LET t == [ query |-> queryOf[p], domain |-> domainOf[p] ]
  IN  IF t \in TestCases /\ contextOf[p] = EmptyMap
      THEN TestCaseAlone[t, seed]
      ELSE FinalDecisionAlone(queryOf[p], domainOf[p], contextOf[p], seed)

SameInputs(p, r) ==
  queryOf[p] = queryOf[r] /\ domainOf[p] = domainOf[r] /\ contextOf[p] = contextOf[r]

\* C3: given identical (query, domain, context), repeated calls produce an
\* identical FinalDecision (text, confidence, risks, recommendations and
\* geometric_balance), whatever iteration order the deduplication of
\* _generate_actions produces: two requests with the same inputs produce the
\* same FinalDecision, and it is the one every hash seed leads to.
C3_RepeatedCallsAgree ==
  /\ \A p, r \in Analyses :
       FinalDecisionProduced(p) /\ FinalDecisionProduced(r) /\ SameInputs(p, r)
         => FinalDecision(p) = FinalDecision(r)
  /\ \A p \in Analyses :
       FinalDecisionProduced(p) =>
         \A seed \in HashSeeds :
            FinalDecision(p) = ExpectedAlone(p, seed)

\* C3 witness: two requests with the same inputs have both produced their
\* FinalDecision, and another hash seed would have given other key_actions
C3_Witness ==
  \E p, r \in Analyses :
    /\ p # r
    /\ SameInputs(p, r)
    /\ FinalDecisionProduced(p) /\ FinalDecisionProduced(r)
    /\ \E seed \in HashSeeds :
         fruit_of_life_layer(networkOf[p][1], Text(queryOf[p]), seed) # solutionsOf[p]

\* C4: the selected solution is an evaluated blueprint whose overall_score is
\* the maximum over the five evaluated blueprints, and among the blueprints
\* with that score it is the first in the order aggressive, balanced,
\* conservative, innovative, efficient.
C4_SelectsFirstMaximum ==
  \A p \in Analyses :
    decisionOf[p] # None =>
      LET evaluated == evaluated_solutions_of(solutionsOf[p])
          selected == decisionOf[p][1]
      IN  /\ Len(evaluated) = 5
          /\ [ i \in 1..5 |-> evaluated[i].solution.strategy ] = strategy_types
          /\ \A i \in 1..5 : evaluated[i].overall_score <= selected.overall_score
          /\ \E i \in 1..5 :
               /\ evaluated[i] = selected
               /\ \A j \in 1..(i - 1) : evaluated[j].overall_score < selected.overall_score

\* C4 witness: a solution is selected while a later blueprint shares the
\* maximal overall_score
C4_Witness ==
  \E p \in Analyses :
    /\ decisionOf[p] # None
    /\ LET evaluated == evaluated_solutions_of(solutionsOf[p])
       IN  \E i, j \in 1..5 :
             /\ i < j
             /\ evaluated[i] = decisionOf[p][1]
             /\ evaluated[j].overall_score = evaluated[i].overall_score

\* the actions _generate_actions collects before it deduplicates them
collected_actions(strategy, patterns) ==
  extended(IF strategy \in DOMAIN base_actions THEN base_actions[strategy] ELSE << >>,
           patterns)

\* each distinct item once, at the position of its first occurrence
RECURSIVE ordered_dedup(_, _)
ordered_dedup(items, seen) ==
  IF items = << >> THEN << >>
  ELSE IF items[1] \in seen THEN ordered_dedup(Tail(items), seen)
  ELSE << items[1] >> \o ordered_dedup(Tail(items), seen \cup { items[1] })

\* C5: a blueprint's key_actions is the insertion-order-preserving
\* deduplication of the strategy's base actions followed by the
\* pattern-specific actions, truncated to its first 5 entries.
C5_KeyActionsKeepInsertionOrder ==
  \A p \in Analyses :
    solutionsOf[p] # None =>
      \A i \in DOMAIN solutionsOf[p] :
        solutionsOf[p][i].key_actions =
          Take(ordered_dedup(collected_actions(solutionsOf[p][i].strategy,
                                               networkOf[p][1].central_patterns), {}),
               MaxActions)

\* the pattern-specific actions of the patterns of a list
actions_of_patterns(patterns) ==
  UNION { Range(pattern_actions[x]) : x \in Range(patterns) \cap DOMAIN pattern_actions }

\* C6 as claimed: every entry of key_actions comes from the strategy's base
\* actions or from the pattern-specific actions of the two focus patterns,
\* and the third central pattern does not change the number of key_actions.
C6_OnlyFocusPatternsContribute ==
  \A p \in Analyses :
    solutionsOf[p] # None =>
      \A i \in DOMAIN solutionsOf[p] :
        LET blueprint == solutionsOf[p][i]
        IN  /\ Range(blueprint.key_actions) \subseteq
                 Range(base_actions[blueprint.strategy])
                 \cup actions_of_patterns(blueprint.focus_patterns)
            /\ Len(blueprint.key_actions) =
                 Min(MaxActions, Len(collected_actions(blueprint.strategy,
                                                       blueprint.focus_patterns)))

\* C6 as amended: every entry of key_actions comes from the strategy's base
\* actions or from the pattern-specific actions of one of the three central
\* patterns, and all three central patterns count towards the number of
\* key_actions.
C6_CentralPatternsContribute ==
  \A p \in Analyses :
    solutionsOf[p] # None =>
      \A i \in DOMAIN solutionsOf[p] :
        LET blueprint == solutionsOf[p][i]
            central_patterns == networkOf[p][1].central_patterns
        IN  /\ blueprint.focus_patterns = Take(central_patterns, NumFocus)
            /\ Range(blueprint.key_actions) \subseteq
                 Range(base_actions[blueprint.strategy])
                 \cup actions_of_patterns(central_patterns)
            /\ Len(blueprint.key_actions) =
                 Min(MaxActions, Len(collected_actions(blueprint.strategy, central_patterns)))

\* C6 witness: a blueprint holds an action of its third central pattern and
\* would hold fewer actions without that pattern
C6_Witness ==
  \E p \in Analyses :
    /\ solutionsOf[p] # None
    /\ \E i \in DOMAIN solutionsOf[p] :
         LET blueprint == solutionsOf[p][i]
             third == networkOf[p][1].central_patterns[NumCentral]
         IN  /\ third \in DOMAIN pattern_actions
             /\ Range(blueprint.key_actions) \cap Range(pattern_actions[third]) # {}
             /\ Len(collected_actions(blueprint.strategy, blueprint.focus_patterns))
                  < Len(blueprint.key_actions)

\* C7: the final_decision text is decided by the domain label: "Business
\* strategy: " followed by the expected_outcome of the selected blueprint for
\* "business" and for every unknown label, the fixed template of the domain
\* for "personal" and for "ecological".
C7_FinalDecisionByDomain ==
  \A p \in Analyses :
    FinalDecisionProduced(p) =>
      FinalDecision(p).final_decision =
        IF domainOf[p] = "personal"
        THEN << "Personal decision: Consider life balance and long-term happiness" >>
        ELSE IF domainOf[p] = "ecological"
        THEN << "Ecological approach: Prioritize sustainability and system health" >>
        ELSE << "Business strategy: " >> \o decisionOf[p][1].solution.expected_outcome

\* C7 witness: a FinalDecision is produced for a domain label that has no
\* template
C7_Witness ==
  \E p \in Analyses :
    /\ FinalDecisionProduced(p)
    /\ domainOf[p] \notin { "business", "personal", "ecological" }
    /\ FinalDecision(p).final_decision[1] = "Business strategy: "

\* C8: when a fault occurs during an analysis the caller receives an opaque
\* "analysis failed" response that carries nothing of the fault: the failure
\* response does not hold the message of the exception.
C8_FailureResponseIsOpaque ==
  \A p \in Analyses :
    responseOf[p] # None /\ responseOf[p][1].status_code = 500 =>
      raisedOf[p][1] \notin Range(responseOf[p][1].detail)

\* C9: a failure of the audit write does not abort the analysis: the
\* FinalDecision is produced, the same as when the write succeeds.
C9_AuditFailureDoesNotAbort ==
  \A p \in Analyses :
    sinkOf[p] \in { "lost", "raised" } =>
      /\ FinalDecisionProduced(p)
      /\ FinalDecision(p) = ExpectedAlone(p, hashSeed)

\* everything the model holds for one request
Frame(p) ==
  << pc[p], queryOf[p], domainOf[p], contextOf[p], insightsOf[p], patternsOf[p], networkOf[p],
     solutionsOf[p], decisionOf[p], wisdomOf[p], sinkOf[p], raisedOf[p], responseOf[p] >>

\* the requests whose last layer has run
PastLastLayer == { p \in Analyses : pc[p] \in { "build_result", "except", "done" } }

themes_occurring(text) ==
  LET lowered == Lower(text)
  IN  { t \in Range(ThemeOrder) :
          \E k \in DOMAIN theme_keywords[t] : Contains(lowered, theme_keywords[t][k]) }

\* the themes a list of insights was generated for (each theme, and the
\* fallback "general", has a text of its own)
themes_behind(insight_list) ==
  LET themes == [ i \in 1..Len(insight_list) |->
                    CHOOSE t \in Range(ThemeOrder) \cup { "general" } :
                       generate_insight(t, EmptyMap) = insight_list[i] ]
  IN  SubSeq(themes, 1, Len(insight_list))

PositionIn(order, x) == CHOOSE i \in DOMAIN order : order[i] = x

C11_EmptyQueryDecided ==
  \E p \in Analyses :
    /\ queryOf[p] = << >> /\ pc[p] = "build_result"
    /\ themes_behind(insightsOf[p]) = << "general" >>
    /\ FinalDecisionProduced(p)

\* central is the list of the NumCentral best patterns of a score map: by
\* descending score, patterns of equal score in the order of PatternNames
CentralAsClaimed(central, patterns) ==
  LET Before(a, b) ==
        \/ patterns[a] > patterns[b]
        \/ /\ patterns[a] = patterns[b]
           /\ PositionIn(PatternNames, a) < PositionIn(PatternNames, b)
  IN  /\ Len(central) = NumCentral
      /\ \A i, j \in DOMAIN central : i < j => Before(central[i], central[j])
      /\ \A x \in Range(PatternNames) \ Range(central) :
            \A i \in DOMAIN central : Before(central[i], x)

\* C12: for every pattern score map over the 7 patterns, central_patterns is
\* the list of the 3 patterns with the highest scores in descending score
\* order, patterns of equal score in the fixed enumeration order
\* (growth_expansion, stability_structure, connection_relationship,
\* innovation_creativity, efficiency_optimization, risk_challenge,
\* opportunity_potential); every blueprint's focus_patterns is the first 2
\* entries of that list.
C12_CentralPatternsStableTopThree ==
  \A p \in Analyses :
    networkOf[p] # None =>
      LET central == networkOf[p][1].central_patterns
      IN  /\ CentralAsClaimed(central, patternsOf[p][1])
          /\ solutionsOf[p] # None =>
                \A i \in DOMAIN solutionsOf[p] :
                   solutionsOf[p][i].focus_patterns = << central[1], central[2] >>

\* C12 witness: the blueprints are generated from a score map in which the
\* best pattern is not the first of the enumeration, two central patterns
\* have the same score, and a pattern left out has the score of the last
\* central pattern
C12_Witness ==
  \E p \in Analyses :
    /\ networkOf[p] # None /\ solutionsOf[p] # None
    /\ LET central == networkOf[p][1].central_patterns
           patterns == patternsOf[p][1]
       IN  /\ central[1] # PatternNames[1]
           /\ patterns[central[1]] > patterns[central[2]]
           /\ patterns[central[2]] = patterns[central[3]]
           /\ \E x \in Range(PatternNames) \ Range(central) :
                 patterns[x] = patterns[central[3]]

\* the overall_score the evaluation gives the blueprint of a strategy
overall_score_of(evaluated, strategy) ==
  LET i == CHOOSE k \in DOMAIN evaluated : evaluated[k].solution.strategy = strategy
  IN  evaluated[i].overall_score

\* C13: for every query and every domain the selected solution is the
\* blueprint of strategy "balanced": the balanced and the innovative
\* blueprint have equal overall_score, every other strategy's overall_score
\* is strictly lower, and the first of the two is picked; so no dimension of
\* the geometric_balance is below 0.3 and the risks list is exactly the
\* single fallback message "Low to moderate risks identified".
C13_BalancedAlwaysSelected ==
  \A p \in Analyses :
    decisionOf[p] # None =>
      LET evaluated == evaluated_solutions_of(solutionsOf[p])
          decision == decisionOf[p][1]
      IN  /\ decision.solution.strategy = "balanced"
          /\ overall_score_of(evaluated, "balanced") = overall_score_of(evaluated, "innovative")
          /\ \A strategy \in Range(strategy_types) \ { "balanced", "innovative" } :
                overall_score_of(evaluated, strategy) < overall_score_of(evaluated, "balanced")
          /\ \A k \in DOMAIN decision.scores : decision.scores[k] >= 30
          /\ decision.risks = << "Low to moderate risks identified" >>
          /\ FinalDecisionProduced(p) =>
                /\ \A k \in DOMAIN FinalDecision(p).geometric_balance :
                      FinalDecision(p).geometric_balance[k] >= 30
                /\ FinalDecision(p).risks = << "Low to moderate risks identified" >>

\* C13 witness: a FinalDecision is produced from the balanced blueprint for a
\* query without a keyword, its lowest dimension is purpose_potential at 0.6,
\* and its risks are the fallback message
C13_Witness ==
  \E p \in Analyses :
    /\ FinalDecisionProduced(p)
    /\ themes_occurring(Text(queryOf[p])) = {}
    /\ decisionOf[p][1].solution.strategy = "balanced"
    /\ FinalDecision(p).geometric_balance["purpose_potential"] = 60
    /\ \A k \in DOMAIN FinalDecision(p).geometric_balance :
          FinalDecision(p).geometric_balance[k] >= 60
    /\ FinalDecision(p).risks = << "Low to moderate risks identified" >>

====
